---- MODULE Spec2Model ----
(***************************************************************************)
(* Model of src/main.py (MSOE class availability checker).                 *)
(*                                                                         *)
(* Text is a sequence of atoms: single characters ("S", "1", " ") and      *)
(* literal fragments of the program's f-strings (" IS available!").        *)
(* Time is counted in seconds, the unit of check_interval and the          *)
(* resolution of the status lines' timestamps.                             *)
(***************************************************************************)
EXTENDS Integers, Sequences, FiniteSets, TLC

\* ------------------------------------------------------------ bounds
MaxClasses == 2
MaxWorkers == 2
MaxTime == 2
MaxLines == 2

\* ------------------------------------------------------------ constants
\* self.check_interval = 60 (line 186)
InitialInterval == 60

\* ------------------------------------------------------------ text
SP == " "

Min(a, b) == IF a < b THEN a ELSE b
Max(a, b) == IF a > b THEN a ELSE b

\* str.upper on the characters the inputs use
UpperChar(c) ==
  CASE c = "s" -> "S"
    [] c = "e" -> "E"
    [] c = "c" -> "C"
    [] OTHER -> c

Upper(s) == [i \in 1..Len(s) |-> UpperChar(s[i])]

RECURSIVE LStrip(_)
LStrip(s) == IF s # <<>> /\ Head(s) = SP THEN LStrip(Tail(s)) ELSE s

RECURSIVE RStrip(_)
RStrip(s) ==
  IF s # <<>> /\ s[Len(s)] = SP THEN RStrip(SubSeq(s, 1, Len(s) - 1)) ELSE s

\* str.strip()
Strip(s) == RStrip(LStrip(s))

\* the word at the head of s (up to the first blank)
RECURSIVE FirstWord(_)
FirstWord(s) ==
  IF s = <<>> \/ Head(s) = SP THEN <<>> ELSE <<Head(s)>> \o FirstWord(Tail(s))

\* str.split() with no argument: the words between runs of blanks.  (t and w
\* are bound by a quantifier, so that each is computed once.)
RECURSIVE Split(_)
Split(s) ==
  IF LStrip(s) = <<>> THEN <<>>
  ELSE CHOOSE words \in
         { <<w>> \o Split(SubSeq(t, Len(w) + 1, Len(t))) :
             t \in {LStrip(s)}, w \in {FirstWord(LStrip(s))} } : TRUE

\* sub in s, for str
Contains(s, sub) ==
  \E i \in 0..(Len(s) - Len(sub)) : SubSeq(s, i + 1, i + Len(sub)) = sub

\* the concatenation of a sequence of texts
RECURSIVE Join(_)
Join(ss) == IF ss = <<>> THEN <<>> ELSE Head(ss) \o Join(Tail(ss))

Digits == {"0", "1", "2", "3", "4", "5", "6", "7", "8", "9"}

DigitVal(c) ==
  CASE c = "0" -> 0 [] c = "1" -> 1 [] c = "2" -> 2 [] c = "3" -> 3
    [] c = "4" -> 4 [] c = "5" -> 5 [] c = "6" -> 6 [] c = "7" -> 7
    [] c = "8" -> 8 [] c = "9" -> 9

RECURSIVE DecVal(_)
DecVal(s) ==
  IF s = <<>> THEN 0 ELSE 10 * DecVal(SubSeq(s, 1, Len(s) - 1)) + DigitVal(s[Len(s)])

\* int(text): blanks around are ignored, one optional sign, then digits only;
\* anything else raises ValueError (ok = FALSE)
ParseInt(text) ==
  LET t == Strip(text)
      signed == t # <<>> /\ Head(t) \in {"-", "+"}
      body == IF signed THEN Tail(t) ELSE t
      ok == body # <<>> /\ \A i \in 1..Len(body) : body[i] \in Digits
  IN [ok |-> ok,
      val |-> IF ~ok THEN 0
              ELSE IF signed /\ Head(t) = "-" THEN 0 - DecVal(body)
              ELSE DecVal(body)]

\* f"{prefix} {number} {section}"
ClassInfo(prefix, number, section) ==
  prefix \o <<SP>> \o number \o <<SP>> \o section

\* ------------------------------------------------------------ the probe
\* The page the browser shows after the form is submitted:
\*   exc    the exception the automation layer raises during the call, or "none"
\*   flash  whether an element of class flash-error is present
\*   header the text of the flash-error element before its list items
\*   lis    the texts of its <li> elements
\*   boxes  the checkboxes (class fs-checkbox-element), by name
Exceptions ==
  {"NoSuchElementException", "TimeoutException",
   "StaleElementReferenceException", "WebDriverException", "Exception"}

\* f'input[name="courses[{coursePrefix}-{courseCode}][{sectionNumber}]"]'
BoxName(coursePrefix, courseCode, sectionNumber) ==
  <<"courses[">> \o coursePrefix \o <<"-">> \o courseCode \o <<"][">>
    \o sectionNumber \o <<"]">>

\* f"{coursePrefix}-{courseCode}"
CourseName(coursePrefix, courseCode) == coursePrefix \o <<"-">> \o courseCode

\* element.text of the flash-error element: its own text and its items' texts
ErrorText(page) ==
  page.header \o Join([i \in 1..Len(page.lis) |-> <<"\n">> \o page.lis[i]])

IdText(coursePrefix, courseCode, sectionNumber) ==
  coursePrefix \o <<SP>> \o courseCode \o <<SP>> \o sectionNumber

\* what a call of check_class_availability ends with: a returned pair, or an
\* exception that leaves the call
Returned(is_available, status_message) ==
  [raised |-> FALSE, avail |-> is_available, msg |-> status_message]

Raised(exc) == [raised |-> TRUE, avail |-> FALSE, msg |-> <<exc>>]

\* the except clauses of lines 139-148, in their order
FaultMessage(exc, id) ==
  CASE exc = "NoSuchElementException" ->
         <<"Element not found for ">> \o id \o <<": ">> \o <<exc>>
    [] exc = "TimeoutException" ->
         <<"Timeout occurred for ">> \o id \o <<": ">> \o <<exc>>
    [] exc = "StaleElementReferenceException" ->
         <<"Stale element for ">> \o id \o <<": ">> \o <<exc>>
    [] exc = "WebDriverException" ->
         <<"WebDriver error for ">> \o id \o <<": ">> \o <<exc>>
    [] OTHER ->
         <<"Unexpected error for ">> \o id \o <<": ">> \o <<exc>>

\* lines 122-127: the result when a flash-error element is present
ErrorResult(coursePrefix, courseCode, sectionNumber, page) ==
  LET id == IdText(coursePrefix, courseCode, sectionNumber)
      error_text == ErrorText(page)
  IN IF /\ Contains(error_text, <<"unknown or not offered">>)
        /\ \E i \in 1..Len(page.lis) :
             Contains(page.lis[i], CourseName(coursePrefix, courseCode))
     THEN Returned(FALSE, <<"Class ">> \o id
                     \o <<" is unknown or not offered for the selected semester">>)
     ELSE Returned(FALSE, <<"Error for ">> \o id \o <<": ">> \o error_text)

\* lines 130-138: the result read from the section's checkbox
CheckboxResult(coursePrefix, courseCode, sectionNumber, page) ==
  LET id == IdText(coursePrefix, courseCode, sectionNumber)
      name == BoxName(coursePrefix, courseCode, sectionNumber)
      found == {b \in page.boxes : b.name = name}
  IN IF found = {}
     THEN Returned(FALSE, <<"Could not find section number ">> \o sectionNumber
                            \o <<" for class ">> \o id)
     ELSE IF (CHOOSE b \in found : TRUE).selected
     THEN Returned(TRUE, <<"Class ">> \o id \o <<" IS available!">>)
     ELSE Returned(FALSE, <<"Class ">> \o id \o <<" NOT available">>)

\* check_class_availability without the except clauses of lines 145-148
check_class_availability_uncaught(coursePrefix, courseCode, sectionNumber, page) ==
  LET id == IdText(coursePrefix, courseCode, sectionNumber)
  IN IF page.exc \in {"WebDriverException", "Exception"}
     THEN Raised(page.exc)
     ELSE IF page.exc # "none"
     THEN Returned(FALSE, FaultMessage(page.exc, id))
     ELSE IF ~page.flash /\ page.boxes = {}
     THEN Returned(FALSE, <<"Timeout: Class ">> \o id
                            \o <<" page did not load properly">>)
     ELSE IF page.flash
     THEN ErrorResult(coursePrefix, courseCode, sectionNumber, page)
     ELSE CheckboxResult(coursePrefix, courseCode, sectionNumber, page)

\* check_class_availability reading the checkbox before the flash-error element
check_class_availability_box_first(coursePrefix, courseCode, sectionNumber, page) ==
  LET id == IdText(coursePrefix, courseCode, sectionNumber)
      name == BoxName(coursePrefix, courseCode, sectionNumber)
  IN IF page.exc # "none"
     THEN Returned(FALSE, FaultMessage(page.exc, id))
     ELSE IF ~page.flash /\ page.boxes = {}
     THEN Returned(FALSE, <<"Timeout: Class ">> \o id
                            \o <<" page did not load properly">>)
     ELSE IF \E b \in page.boxes : b.name = name
     THEN CheckboxResult(coursePrefix, courseCode, sectionNumber, page)
     ELSE IF page.flash
     THEN ErrorResult(coursePrefix, courseCode, sectionNumber, page)
     ELSE CheckboxResult(coursePrefix, courseCode, sectionNumber, page)

\* check_class_availability: (is_available, status_message).  An exception of
\* the automation layer is caught by the except clauses of lines 139-148, the
\* last of which catches every Exception, so the call always returns.  The
\* bounded wait of lines 111-116 times out when neither a checkbox nor a
\* flash-error element is present.
check_class_availability(coursePrefix, courseCode, sectionNumber, page) ==
  LET id == IdText(coursePrefix, courseCode, sectionNumber)
  IN IF page.exc # "none"
     THEN Returned(FALSE, FaultMessage(page.exc, id))
     ELSE IF ~page.flash /\ page.boxes = {}
     THEN Returned(FALSE, <<"Timeout: Class ">> \o id
                            \o <<" page did not load properly">>)
     ELSE IF page.flash
     THEN ErrorResult(coursePrefix, courseCode, sectionNumber, page)
     ELSE CheckboxResult(coursePrefix, courseCode, sectionNumber, page)

\* ------------------------------------------------------------ inputs
\* what the user may type into the entry fields
PrefixInputs == {<<SP, "s", "e">>}
NumberInputs == {<<"1", "0", "1", "0">>}
SectionInputs == {<<"0", "0", "1">>}
IntervalInputs == {<<"2">>, <<"0">>, <<"x">>}

NoPage == [exc |-> "none", flash |-> FALSE, header |-> <<>>, lis |-> <<>>, boxes |-> {}]

Box(p, selected) ==
  [name |-> BoxName(p, <<"1", "0", "1", "0">>, <<"0", "0", "1">>), selected |-> selected]

HeaderUnknown == <<"The following courses are ", "unknown or not offered", ":">>
HeaderOther == <<"The scheduler is unavailable">>

\* the pages the poll loop's probes are answered with: one per kind of result
SchedPages ==
  { [NoPage EXCEPT !.exc = "WebDriverException"],
    [NoPage EXCEPT !.boxes = {Box(<<"S", "E">>, TRUE)}] }

\* ------------------------------------------------------------ state
VARIABLES
  classes,        \* self.classes: the class_info strings, in order
  tree,           \* self.class_tree: the rows (prefix, number, section)
  check_interval, \* self.check_interval, in seconds
  checking,       \* self.checking
  buttons,        \* state of the widgets disable_buttons/enable_buttons set
  signal,         \* the open messagebox by which a handler refused, or "none"
  workers,        \* the threads start_checking has started
  nthreads,       \* how many of them
  now,            \* time.time(), in seconds
  sink,           \* the lines of self.status_text
  queue,          \* notification_queue
  notif,          \* the notification_worker thread
  delivered,      \* the messages notification.notify has shown
  dialogs         \* the open Edit Class windows, in the order they were opened

vars ==
  <<classes, tree, check_interval, checking, buttons, signal, workers, nthreads,
    now, sink, queue, notif, delivered, dialogs>>

uiVars == <<classes, tree, dialogs, check_interval, checking, buttons, signal>>
notifVars == <<queue, notif, delivered>>

Threads == 1..MaxWorkers

\* A thread running check_schedule_availability.  pc is the place in the code;
\* it is the list iterator's index; item is the split class_info; the *_time
\* fields, avail and msg are the method's locals (a local is reset once the
\* code no longer reads it).  interval is the self.check_interval line 442 read,
\* page the page the last probe was answered with.
\* timestamp is the local of line 432, kept only where lines 432 and 433 are
\* separate steps (Stamp, Insert).
\* tracked, probed, logged and stop_seen record what the thread has done: the
\* list at the cycle's start, the identifiers probed and recorded in the cycle,
\* and whether stop_checking was called while the thread was in a cycle's sweep.
NewWorker ==
  [pc |-> "unused", it |-> 0, item |-> <<>>, start_time |-> 0, elapsed_time |-> 0,
   interval |-> 0, sleep_time |-> 0, end_time |-> 0, avail |-> FALSE,
   msg |-> <<>>, page |-> NoPage, tracked |-> <<>>, probed |-> <<>>,
   logged |-> <<>>, stop_seen |-> FALSE, timestamp |-> 0]

Live(w) == workers[w].pc \notin {"unused", "done", "crashed"}
InFlight(w) == workers[w].pc = "probe"
InCycle(w) == workers[w].pc \in {"for", "probe", "alert"}

Init ==
  /\ classes = <<>>
  /\ tree = <<>>
  /\ check_interval = InitialInterval
  /\ checking = FALSE
  /\ buttons = "normal"
  /\ signal = "none"
  /\ workers = [w \in Threads |-> NewWorker]
  /\ nthreads = 0
  /\ now = 0
  /\ sink = <<>>
  /\ queue = <<>>
  /\ notif = [pc |-> "get", message |-> <<>>]
  /\ delivered = <<>>
  /\ dialogs = <<>>

\* ------------------------------------------------------------ the form
\* list.index(x): the first position of x (0 when absent, where Python raises)
IndexOf(list, x) ==
  IF \E i \in 1..Len(list) : list[i] = x
  THEN CHOOSE i \in 1..Len(list) : list[i] = x /\ \A j \in 1..(i - 1) : list[j] # x
  ELSE 0

RemoveAt(list, i) == SubSeq(list, 1, i - 1) \o SubSeq(list, i + 1, Len(list))

\* add_class, with the texts of the three entry fields
add_class(prefix_entry, number_entry, section_entry) ==
  LET prefix == Upper(Strip(prefix_entry))
      number == Strip(number_entry)
      section == Strip(section_entry)
  IN /\ signal = "none"
     /\ buttons = "normal"
     /\ IF prefix # <<>> /\ number # <<>> /\ section # <<>>
        THEN /\ Len(classes) < MaxClasses
             /\ classes' = Append(classes, ClassInfo(prefix, number, section))
             /\ tree' = Append(tree, <<prefix, number, section>>)
             /\ signal' = "none"
        ELSE /\ signal' = "Please fill in all fields."
             /\ UNCHANGED <<classes, tree>>
     /\ UNCHANGED <<check_interval, checking, buttons, workers, nthreads, now,
                    sink, queue, notif, delivered, dialogs>>

\* An Edit Class window: the closure of save_changes.  item is the tree item
\* the window was opened on, held as the row it now is in the tree, 0 once the
\* item has been deleted; values are the row's values when the window opened.
\* class_tree.delete(item) on row i: the rows below it move up.
TreeDelete(i) ==
  [k \in DOMAIN dialogs |->
     [dialogs[k] EXCEPT !.item = IF @ = i THEN 0 ELSE IF @ > i THEN @ - 1 ELSE @]]

\* remove_class, with row i of the tree selected
remove_class(i) ==
  LET values == tree[i]
      class_info == ClassInfo(values[1], values[2], values[3])
      index == IndexOf(classes, class_info)
  IN /\ signal = "none"
     /\ buttons = "normal"
     /\ i \in 1..Len(tree)
     /\ IF index = 0
        THEN UNCHANGED <<classes, tree, dialogs>>
        ELSE /\ classes' = RemoveAt(classes, index)
             /\ tree' = RemoveAt(tree, i)
             /\ dialogs' = TreeDelete(i)
     /\ signal' = "none"
     /\ UNCHANGED <<check_interval, checking, buttons, workers, nthreads, now,
                    sink, queue, notif, delivered>>

\* threading.Thread(target=self.check_schedule_availability).start()
StartThread ==
  /\ nthreads < MaxWorkers
  /\ nthreads' = nthreads + 1
  /\ workers' = [workers EXCEPT ![nthreads + 1] = [NewWorker EXCEPT !.pc = "while"]]

\* start_checking without the test of line 408
start_checking_any_list(interval_entry) ==
  LET parsed == ParseInt(interval_entry)
  IN /\ signal = "none"
     /\ IF checking
        THEN /\ signal' = "Checking is already in progress."
             /\ UNCHANGED <<check_interval, checking, buttons, workers, nthreads>>
        ELSE IF ~parsed.ok
        THEN /\ signal' = "Invalid interval. Please enter a number."
             /\ UNCHANGED <<check_interval, checking, buttons, workers, nthreads>>
        ELSE /\ check_interval' = parsed.val
             /\ checking' = TRUE
             /\ buttons' = "disabled"
             /\ signal' = "none"
             /\ StartThread
     /\ UNCHANGED <<classes, tree, dialogs, now, sink, queue, notif, delivered>>

\* start_checking without the test of line 398
start_checking_unguarded(interval_entry) ==
  LET parsed == ParseInt(interval_entry)
  IN /\ signal = "none"
     /\ IF ~parsed.ok
        THEN /\ signal' = "Invalid interval. Please enter a number."
             /\ UNCHANGED <<check_interval, checking, buttons, workers, nthreads>>
        ELSE IF classes = <<>>
        THEN /\ check_interval' = parsed.val
             /\ signal' = "Please add at least one class to check."
             /\ UNCHANGED <<checking, buttons, workers, nthreads>>
        ELSE /\ check_interval' = parsed.val
             /\ checking' = TRUE
             /\ buttons' = "disabled"
             /\ signal' = "none"
             /\ StartThread
     /\ UNCHANGED <<classes, tree, dialogs, now, sink, queue, notif, delivered>>

\* start_checking, with the text of the interval entry
start_checking(interval_entry) ==
  LET parsed == ParseInt(interval_entry)
  IN /\ signal = "none"
     /\ IF checking
        THEN /\ signal' = "Checking is already in progress."
             /\ UNCHANGED <<check_interval, checking, buttons, workers, nthreads>>
        ELSE IF ~parsed.ok
        THEN /\ signal' = "Invalid interval. Please enter a number."
             /\ UNCHANGED <<check_interval, checking, buttons, workers, nthreads>>
        ELSE IF classes = <<>>
        THEN /\ check_interval' = parsed.val
             /\ signal' = "Please add at least one class to check."
             /\ UNCHANGED <<checking, buttons, workers, nthreads>>
        ELSE /\ check_interval' = parsed.val
             /\ checking' = TRUE
             /\ buttons' = "disabled"
             /\ signal' = "none"
             /\ StartThread
     /\ UNCHANGED <<classes, tree, dialogs, now, sink, queue, notif, delivered>>

\* stop_checking.  Its closing messagebox ("Checking has been stopped.") reports
\* no refusal and is not kept in signal.
stop_checking ==
  /\ signal = "none"
  /\ checking' = FALSE
  /\ buttons' = "normal"
  /\ signal' = "none"
  /\ workers' = [w \in Threads |->
                   IF InCycle(w) THEN [workers[w] EXCEPT !.stop_seen = TRUE]
                   ELSE workers[w]]
  /\ UNCHANGED <<classes, tree, dialogs, check_interval, nthreads, now, sink, queue,
                 notif, delivered>>

\* messagebox.showinfo / showerror return: the user closes the box.  The box is
\* modal, so no other handler runs while it is open; the threads do not see it,
\* and what they do while it is open they can as well do once it is closed, so
\* the model closes it before any thread moves.
Dismiss ==
  /\ signal # "none"
  /\ signal' = "none"
  /\ UNCHANGED <<classes, tree, dialogs, check_interval, checking, buttons, workers,
                 nthreads, now, sink, queue, notif, delivered>>

\* ------------------------------------------------------------ the poll loop
Set(w, r) == workers' = [workers EXCEPT ![w] = r]

workerFrame == <<classes, tree, dialogs, check_interval, checking, buttons, signal, nthreads, now>>

\* the end of the wait counted from the end of the sweep
EndTime_from_now(start_time, interval, time) == time + interval

\* line 442: end_time = start_time + self.check_interval
EndTime(start_time, interval, time) == start_time + interval

\* lines 426-427: while self.checking: start_time = time.time()
WhileTest(w) ==
  /\ signal = "none"
  /\ workers[w].pc = "while"
  /\ IF checking
     THEN Set(w, [NewWorker EXCEPT !.pc = "for", !.start_time = now,
                                   !.tracked = classes,
                                   !.stop_seen = workers[w].stop_seen])
     ELSE Set(w, [NewWorker EXCEPT !.pc = "done"])
  /\ UNCHANGED <<workerFrame, sink, queue, notif, delivered>>

\* no more than MaxLines probes are made in a run of the model
MayProbe == Len(sink) + Cardinality({w \in Threads : InFlight(w)}) < MaxLines

\* lines 438-442, once the list iterator is exhausted: elapsed_time, sleep_time
\* and end_time
Elapsed(w) ==
  LET elapsed_time == now - workers[w].start_time
  IN [workers[w] EXCEPT
        !.pc = "wait", !.it = 0, !.elapsed_time = elapsed_time,
        !.interval = check_interval,
        !.sleep_time = Max(0, check_interval - elapsed_time),
        !.end_time = EndTime(workers[w].start_time, check_interval, now),
        !.page = NoPage, !.tracked = <<>>, !.probed = <<>>, !.logged = <<>>]

\* lines 429-431: the next class_info of the list iterator, split, and the call of
\* check_class_availability; a class_info that does not split into three words
\* raises ValueError, which ends the thread
ForNext(w) ==
  /\ signal = "none"
  /\ workers[w].pc = "for"
  /\ IF workers[w].it < Len(classes)
     THEN LET class_info == classes[workers[w].it + 1]
              words == Split(class_info)
          IN IF Len(words) = 3
             THEN /\ MayProbe
                  /\ Set(w, [workers[w] EXCEPT !.pc = "probe", !.it = @ + 1,
                                               !.item = words, !.page = NoPage,
                                               !.probed = Append(@, class_info)])
             ELSE Set(w, [NewWorker EXCEPT !.pc = "crashed"])
     ELSE Set(w, Elapsed(w))
  /\ UNCHANGED <<workerFrame, sink, queue, notif, delivered>>

\* line 433: f"{timestamp}: {status_message}\n", the timestamp to the second
StatusLine(timestamp, status_message) == [ts |-> timestamp, text |-> status_message]

\* lines 432-436 without the test of line 435
Record_alert_always(w, r, page) ==
  /\ sink' = Append(sink, StatusLine(now, r.msg))
  /\ Set(w, [workers[w] EXCEPT
               !.pc = "alert", !.avail = r.avail, !.msg = r.msg, !.page = page,
               !.logged = Append(@, IdText(workers[w].item[1], workers[w].item[2],
                                           workers[w].item[3]))])

\* what lines 432-435 do with the probe's result r: the status line and the next
\* place in the code.  The call of line 431 is in no try block: an exception
\* that left check_class_availability would end the thread.
Record(w, r, page) ==
  IF r.raised
  THEN /\ Set(w, [NewWorker EXCEPT !.pc = "crashed"])
       /\ UNCHANGED sink
  ELSE
  /\ sink' = Append(sink, StatusLine(now, r.msg))
  /\ Set(w, [workers[w] EXCEPT
               !.pc = IF r.avail THEN "alert" ELSE "for",
               !.avail = r.avail,
               !.msg = IF r.avail THEN r.msg ELSE <<>>,
               !.page = page,
               !.logged = Append(@, IdText(workers[w].item[1], workers[w].item[2],
                                           workers[w].item[3]))])

\* lines 431-435: check_class_availability returns, the browser having shown
\* page; the timestamp is taken and the status line appended
ProbeEnd(w, page) ==
  /\ signal = "none"
  /\ workers[w].pc = "probe"
  /\ Record(w, check_class_availability(workers[w].item[1], workers[w].item[2],
                                        workers[w].item[3], page), page)
  /\ UNCHANGED <<workerFrame, queue, notif, delivered>>

\* pop_up_alert on a Queue(maxsize=1): put blocks while the queue is full
pop_up_alert_bounded(message) ==
  /\ Len(queue) < 1
  /\ queue' = Append(queue, message)

\* pop_up_alert(message): notification_queue.put(message)
pop_up_alert(message) == queue' = Append(queue, message)

\* lines 435-436: if is_available: pop_up_alert(status_message)
Alert(w) ==
  /\ signal = "none"
  /\ workers[w].pc = "alert"
  /\ pop_up_alert(workers[w].msg)
  /\ Set(w, [workers[w] EXCEPT !.pc = "for", !.msg = <<>>, !.avail = FALSE])
  /\ UNCHANGED <<workerFrame, sink, notif, delivered>>

\* lines 443-446: while time.time() < end_time: time.sleep(min(remaining, 0.1)).
\* A slice is shorter than the clock's second: a slice that ends before end_time
\* changes nothing, and the loop is left once the clock has reached end_time.
WaitTest(w) ==
  /\ signal = "none"
  /\ workers[w].pc = "wait"
  /\ IF now < workers[w].end_time
     THEN UNCHANGED workers
     ELSE Set(w, [workers[w] EXCEPT !.pc = "while"])
  /\ UNCHANGED <<workerFrame, sink, queue, notif, delivered>>

\* ------------------------------------------------------------ the notifier
\* a notification_worker that takes the newest message of the queue
NotifGet_newest ==
  /\ signal = "none"
  /\ notif.pc = "get"
  /\ queue # <<>>
  /\ notif' = [notif EXCEPT !.pc = "notify", !.message = queue[Len(queue)]]
  /\ queue' = SubSeq(queue, 1, Len(queue) - 1)
  /\ UNCHANGED <<uiVars, workers, nthreads, now, sink, delivered>>

\* line 69: message = notification_queue.get()
NotifGet ==
  /\ signal = "none"
  /\ notif.pc = "get"
  /\ queue # <<>>
  /\ notif' = [notif EXCEPT !.pc = "notify", !.message = Head(queue)]
  /\ queue' = Tail(queue)
  /\ UNCHANGED <<uiVars, workers, nthreads, now, sink, delivered>>

\* lines 70-75: notification.notify(...), then time.sleep(1.1)
NotifNotify ==
  /\ signal = "none"
  /\ notif.pc = "notify"
  /\ delivered' = Append(delivered, notif.message)
  /\ notif' = [notif EXCEPT !.pc = "sleep", !.message = <<>>]
  /\ UNCHANGED <<uiVars, workers, nthreads, now, sink, queue>>

\* lines 75-76: time.sleep(1.1) returns, notification_queue.task_done().  How
\* long the sleep lasts is not kept: it ends at some later moment.
NotifDone ==
  /\ signal = "none"
  /\ notif.pc = "sleep"
  /\ notif' = [notif EXCEPT !.pc = "get"]
  /\ UNCHANGED <<uiVars, workers, nthreads, now, sink, queue, delivered>>

\* ------------------------------------------------------------ time
\* A thread that can take a step takes it before the clock moves; the clock moves
\* while every thread is inside a probe, a notification, a sleep or a blocking get.
Waiting(w) ==
  \/ workers[w].pc \in {"unused", "probe", "done", "crashed"}
  \/ workers[w].pc = "wait" /\ now < workers[w].end_time
  \/ workers[w].pc = "for" /\ workers[w].it < Len(classes) /\ ~MayProbe
       /\ Len(Split(classes[workers[w].it + 1])) = 3

NotifWaiting ==
  \/ notif.pc = "get" /\ queue = <<>>
  \/ notif.pc = "notify"
  \/ notif.pc = "sleep"

Tick ==
  /\ signal = "none"
  /\ now < MaxTime
  /\ \A w \in Threads : Waiting(w)
  /\ NotifWaiting
  /\ now' = now + 1
  /\ UNCHANGED <<uiVars, workers, nthreads, sink, queue, notif, delivered>>

\* ------------------------------------------------------------ specification
\* every handler and every step, with the user's entries drawn from prefixes and
\* intervals and the pages the browser shows from pages
NextOn(prefixes, intervals, pages) ==
  \/ \E p \in prefixes, n \in NumberInputs, s \in SectionInputs : add_class(p, n, s)
  \/ \E i \in 1..Len(tree) : remove_class(i)
  \/ \E t \in intervals : start_checking(t)
  \/ stop_checking
  \/ Dismiss
  \/ \E w \in Threads : WhileTest(w)
  \/ \E w \in Threads : ForNext(w)
  \/ \E w \in Threads, page \in pages : ProbeEnd(w, page)
  \/ \E w \in Threads : Alert(w)
  \/ \E w \in Threads : WaitTest(w)
  \/ NotifGet
  \/ NotifNotify
  \/ NotifDone
  \/ Tick

Next == NextOn(PrefixInputs, IntervalInputs, SchedPages)

Spec == Init /\ [][Next]_vars


\* ------------------------------------------------------------ the probe alone
\* One call of check_class_availability, for every identifier of ProbeItems and
\* every page of AllPages: the program after add_class, start_checking and the
\* thread's first steps, up to the call of line 431.
ProbeItems ==
  { <<<<"S", "E">>, <<"1", "0", "1", "0">>, <<"0", "0", "1">>>>,
    <<<<"C", "S", "E">>, <<"1", "0", "1", "0">>, <<"0", "0", "1">>>>,
    <<<<"S", "E">>, <<"1", "0", "1">>, <<"0", "0", "1">>>> }

BoxOf(item, selected) ==
  [name |-> BoxName(item[1], item[2], item[3]), selected |-> selected]

BoxSets ==
  { bs \in SUBSET {BoxOf(item, sel) : item \in ProbeItems, sel \in BOOLEAN} :
      /\ \A a, b \in bs : a.name = b.name => a = b
      /\ \A b \in bs : b.name # BoxName(<<"S", "E">>, <<"1", "0", "1">>, <<"0", "0", "1">>) }

LiLists ==
  { <<>>,
    <<CourseName(<<"S", "E">>, <<"1", "0", "1", "0">>)>>,
    <<CourseName(<<"C", "S", "E">>, <<"1", "0", "1", "0">>)>>,
    <<CourseName(<<"E", "E">>, <<"2", "0", "5", "0">>)>>,
    <<CourseName(<<"E", "E">>, <<"2", "0", "5", "0">>),
      CourseName(<<"C", "S", "E">>, <<"1", "0", "1", "0">>)>> }

AllPages ==
  { [NoPage EXCEPT !.exc = e] : e \in Exceptions }
  \cup { [NoPage EXCEPT !.boxes = bs] : bs \in BoxSets }
  \cup { [NoPage EXCEPT !.flash = TRUE, !.header = h, !.lis = ls, !.boxes = bs] :
           h \in {HeaderUnknown, HeaderOther}, ls \in LiLists,
           bs \in {{}, {BoxOf(<<<<"S", "E">>, <<"1", "0", "1", "0">>, <<"0", "0", "1">>>>, TRUE)}} }

InitProbe ==
  \E item \in ProbeItems :
    /\ classes = <<ClassInfo(item[1], item[2], item[3])>>
    /\ tree = <<item>>
    /\ check_interval = 2
    /\ checking = TRUE
    /\ buttons = "disabled"
    /\ signal = "none"
    /\ workers = [w \in Threads |->
                    IF w = 1
                    THEN [NewWorker EXCEPT !.pc = "probe", !.it = 1, !.item = item,
                                           !.tracked = classes, !.probed = classes]
                    ELSE NewWorker]
    /\ nthreads = 1
    /\ now = 0
    /\ sink = <<>>
    /\ queue = <<>>
    /\ notif = [pc |-> "get", message |-> <<>>]
    /\ delivered = <<>>
    /\ dialogs = <<>>

NextProbe ==
  \/ \E w \in Threads, page \in AllPages : ProbeEnd(w, page)
  \/ \E w \in Threads : Alert(w)
  \/ \E w \in Threads : ForNext(w)
  \/ NotifGet
  \/ NotifNotify
  \/ NotifDone

SpecProbe == InitProbe /\ [][NextProbe]_vars


\* ------------------------------------------------------------ properties
Count(seq, x) == Cardinality({i \in 1..Len(seq) : seq[i] = x})

ItemText(w) == IdText(workers[w].item[1], workers[w].item[2], workers[w].item[3])

IsAvailableText(text) == Contains(text, <<" IS available!">>)

IsNotOfferedText(text) ==
  Contains(text, <<" is unknown or not offered for the selected semester">>)

IsFaultText(text) ==
  \E head \in {"Element not found for ", "Timeout occurred for ", "Stale element for ",
               "WebDriver error for ", "Unexpected error for "} : text[1] = head

\* the step of thread w in which its call of check_class_availability ends
ProbeReturns(w) == workers[w].pc = "probe" /\ workers'[w].pc # "probe"

\* the step adds exactly one line to the sink
OneLineAdded == Len(sink') = Len(sink) + 1 /\ SubSeq(sink', 1, Len(sink)) = sink

\* C1: at no moment are two calls of check_class_availability executing on the
\* shared browser: at most one probe is in flight.
AtMostOneProbe == Cardinality({w \in Threads : InFlight(w)}) <= 1

\* C2: start_checking with an empty list of classes signals an error, leaves
\* checking False and starts no thread; a thread is started, and a probe begun,
\* only with a class in the list.
EmptyListRejected ==
  [][
      /\ \A t \in IntervalInputs :
          (classes = <<>> /\ start_checking(t)) =>
             /\ signal' \in {"Please add at least one class to check.",
                             "Invalid interval. Please enter a number."}
             /\ ~checking'
             /\ UNCHANGED <<workers, nthreads, sink, queue>>
      /\ nthreads' # nthreads => classes # <<>>
      /\ \A w \in Threads :
           (workers[w].pc # "probe" /\ workers'[w].pc = "probe") => classes # <<>>
    ]_vars

\* C2 witness: start_checking has just refused an empty list, and nothing runs
EmptyListRefused ==
  /\ signal = "Please add at least one class to check."
  /\ classes = <<>>
  /\ ~checking
  /\ nthreads = 0

\* C3: start_checking with an integer interval <= 0 and a list that is not
\* empty signals a rejection, leaves checking False and starts no thread.
NonPositiveIntervalRejected ==
  [][\A t \in IntervalInputs :
       (/\ ParseInt(t).ok
        /\ ParseInt(t).val <= 0
        /\ classes # <<>>
        /\ ~checking
        /\ start_checking(t)) =>
          /\ signal' # "none"
          /\ ~checking'
          /\ nthreads' = nthreads
    ]_vars

\* C4: start_checking while checking is True signals that checking is already
\* in progress, starts no thread and changes neither checking, the interval nor
\* the list of classes.
AlreadyRunningNoOp ==
  [][\A t \in IntervalInputs :
       (checking /\ start_checking(t)) =>
          /\ signal' = "Checking is already in progress."
          /\ UNCHANGED <<checking, check_interval, classes, tree, buttons,
                         workers, nthreads>>
    ]_vars

\* C4 witness: start_checking has just been refused during a run
AlreadyRunningSignalled ==
  /\ signal = "Checking is already in progress."
  /\ checking
  /\ nthreads = 1
  /\ Live(1)

\* C5: a thread that was in a cycle when stop_checking was called starts no
\* new cycle after stop_checking has returned.
NoNewCycleAfterStop ==
  [][\A w \in Threads :
       workers[w].stop_seen => ~(workers[w].pc = "while" /\ workers'[w].pc = "for")
    ]_vars

\* C6: at the end of a sweep that no stop_checking interrupted, each class the
\* cycle began with has been probed exactly once and has exactly one recorded
\* outcome.
OneProbePerClass ==
  \A w \in Threads :
    (/\ workers[w].pc = "for"
     /\ workers[w].it >= Len(classes)
     /\ ~workers[w].stop_seen) =>
       \A i \in 1..Len(workers[w].tracked) :
         /\ Count(workers[w].probed, workers[w].tracked[i]) = 1
         /\ Count(workers[w].logged, workers[w].tracked[i]) = 1

\* C7: an exception of the automation layer never leaves
\* check_class_availability: the call returns not-available, one line with the
\* fault and the class is recorded, the thread goes on with its for loop, and
\* the next class of the list (a class_info of three words) is the next probed.
FaultIsolated ==
  [][\A w \in Threads :
       /\ workers[w].pc = "probe" => workers'[w].pc \in {"probe", "for", "alert"}
       /\ (ProbeReturns(w) /\ workers'[w].page.exc # "none") =>
             /\ workers'[w].pc = "for"
             /\ workers'[w].it = workers[w].it
             /\ ~workers'[w].avail
             /\ OneLineAdded
             /\ IsFaultText(sink'[Len(sink')].text)
             /\ Contains(sink'[Len(sink')].text, ItemText(w))
             /\ queue' = queue
       /\ (/\ workers[w].pc = "for"
           /\ workers[w].page.exc # "none"
           /\ workers[w].it < Len(classes)
           /\ Len(Split(classes[workers[w].it + 1])) = 3
           /\ workers'[w].pc # "for") =>
             /\ workers'[w].pc = "probe"
             /\ workers'[w].it = workers[w].it + 1
             /\ workers'[w].item = Split(classes[workers[w].it + 1])
    ]_vars

\* C7 witness: the first class's probe ended with a fault, which is the sink's
\* only line, and the thread is probing the second class
SecondProbedAfterFault ==
  /\ nthreads = 1
  /\ Len(classes) = 2
  /\ Len(sink) = 1
  /\ IsFaultText(sink[1].text)
  /\ workers[1].pc = "probe"
  /\ workers[1].it = 2
  /\ Len(workers[1].logged) = 1

\* C8: the return of a probe appends exactly one status line, which names the
\* class, and puts nothing in the notifier's queue; the thread calls
\* pop_up_alert next if and only if the line says the class is available;
\* pop_up_alert puts that one message, which names the class, in the queue; and
\* the queue and the sink grow in no other step.
OneLinePerOutcome ==
  [][
      /\ \A w \in Threads :
          /\ ProbeReturns(w) =>
                /\ OneLineAdded
                /\ sink'[Len(sink')].ts = now
                /\ Contains(sink'[Len(sink')].text, ItemText(w))
                /\ queue' = queue
                /\ workers'[w].pc \in {"alert", "for"}
                /\ workers'[w].pc = "alert" <=> IsAvailableText(sink'[Len(sink')].text)
                /\ workers'[w].pc = "alert" => workers'[w].msg = sink'[Len(sink')].text
          /\ (workers[w].pc = "alert" /\ workers'[w].pc # "alert") =>
                /\ queue' = Append(queue, workers[w].msg)
                /\ IsAvailableText(workers[w].msg)
                /\ Contains(workers[w].msg, ItemText(w))
                /\ workers'[w].pc = "for"
                /\ sink' = sink
      /\ Len(queue') > Len(queue) =>
           \E w \in Threads : workers[w].pc = "alert" /\ workers'[w].pc # "alert"
      /\ sink' # sink => \E w \in Threads : ProbeReturns(w)
    ]_vars

\* C8 witness: one probe found the class available and one did not; the sink
\* has both lines and the notifier exactly one message
AvailableNotifiedOnce ==
  /\ Len(sink) = 2
  /\ IsAvailableText(sink[1].text)
  /\ ~IsAvailableText(sink[2].text)
  /\ Len(queue) + Len(delivered) + (IF notif.pc = "notify" THEN 1 ELSE 0) = 1
  /\ \A w \in Threads : workers[w].pc # "alert"

\* C9: with a flash-error element on the page, the probe's message is the
\* not-offered one exactly when the error text has "unknown or not offered" and
\* lists this class's own prefix-code; otherwise it is the error message with
\* the raw text; the notifier is not called.
NotOfferedOnlyForOwnCourse ==
  (/\ workers[1].pc \in {"for", "alert"}
   /\ Len(workers[1].logged) = 1
   /\ workers[1].page.exc = "none"
   /\ workers[1].page.flash) =>
      LET page == workers[1].page
          text == sink[Len(sink)].text
          own  == CourseName(workers[1].item[1], workers[1].item[2])
          named == /\ Contains(ErrorText(page), <<"unknown or not offered">>)
                   /\ \E i \in 1..Len(page.lis) : page.lis[i] = own
      IN /\ IsNotOfferedText(text) <=> named
         /\ ~named => text = <<"Error for ">> \o ItemText(1) \o <<": ">> \o ErrorText(page)
         /\ workers[1].pc = "for"
         /\ queue = <<>>

\* C10: the wait ends at start_time + interval; after a sweep shorter than the
\* interval the next cycle starts at the previous start_time + interval, which
\* is interval - elapsed_time after the sweep's end.
AnchoredWait ==
  /\ [](\A w \in Threads :
          workers[w].pc = "wait" =>
            /\ workers[w].end_time = workers[w].start_time + workers[w].interval
            /\ (workers[w].elapsed_time < workers[w].interval =>
                  workers[w].end_time = workers[w].start_time + workers[w].elapsed_time
                                          + workers[w].sleep_time))
  /\ [][\A w \in Threads :
          (/\ workers[w].pc = "while"
           /\ workers'[w].pc = "for"
           /\ workers[w].elapsed_time < workers[w].interval) =>
             workers'[w].start_time = workers[w].start_time + workers[w].interval
       ]_vars

\* C10 witness: a sweep took time, but less than the interval, and its wait has
\* ended exactly at start_time + interval: the thread is at the loop's test
NextCycleAtBoundary ==
  \E w \in Threads :
    /\ workers[w].pc = "while"
    /\ checking
    /\ workers[w].elapsed_time > 0
    /\ workers[w].elapsed_time < workers[w].interval
    /\ now = workers[w].start_time + workers[w].interval

IsTimeoutText(text) == text[1] = "Timeout: Class "

IsErrorText(text) == text[1] = "Error for " \/ IsNotOfferedText(text)

IsNotFoundText(text) == text[1] = "Could not find section number "

IsUnavailableText(text) == Contains(text, <<" NOT available">>)

\* the checkboxes of page that carry the name of thread w's section
OwnBoxes(w, page) ==
  {b \in page.boxes :
     b.name = BoxName(workers[w].item[1], workers[w].item[2], workers[w].item[3])}

\* C11: on a page that raised no exception the probe's result follows the
\* precedence timeout, flash-error, missing checkbox, checkbox state: it is the
\* available message only when there was no timeout, no flash-error element and
\* the section's own checkbox is present and selected.
ProbePrecedence ==
  (/\ workers[1].pc \in {"for", "alert"}
   /\ Len(workers[1].logged) = 1
   /\ workers[1].page.exc = "none") =>
      LET page == workers[1].page
          text == sink[Len(sink)].text
          own  == OwnBoxes(1, page)
      IN /\ IF ~page.flash /\ page.boxes = {}
            THEN IsTimeoutText(text)
            ELSE IF page.flash
            THEN IsErrorText(text)
            ELSE IF own = {}
            THEN IsNotFoundText(text)
            ELSE IF \A b \in own : b.selected
            THEN IsAvailableText(text)
            ELSE IsUnavailableText(text)
         /\ Cardinality({kind \in {"timeout", "error", "notfound", "available",
                                   "unavailable"} :
               \/ kind = "timeout" /\ IsTimeoutText(text)
               \/ kind = "error" /\ IsErrorText(text)
               \/ kind = "notfound" /\ IsNotFoundText(text)
               \/ kind = "available" /\ IsAvailableText(text)
               \/ kind = "unavailable" /\ IsUnavailableText(text)}) = 1
         /\ IsAvailableText(text) =>
              (~page.flash /\ own # {} /\ \A b \in own : b.selected)
         /\ workers[1].pc = "alert" => IsAvailableText(text)

\* C11 witness: the page had both a flash-error element and the section's own
\* checkbox, selected, and the probe returned the error
ErrorBeforeSelectedBox ==
  /\ workers[1].pc = "for"
  /\ Len(workers[1].logged) = 1
  /\ workers[1].page.flash
  /\ \E b \in OwnBoxes(1, workers[1].page) : b.selected
  /\ IsErrorText(sink[Len(sink)].text)
  /\ queue = <<>>

\* ------------------------------------------------------------ a prefix of two words
\* add_class only strips its entries: a prefix with a space inside is accepted
SpacedPrefixInputs == {<<"c", SP, "s">>}

NextSpaced == NextOn(PrefixInputs \cup SpacedPrefixInputs, {<<"2">>}, SchedPages)

SpecSpaced == Init /\ [][NextSpaced]_vars

\* C12: the poll loop ends only through stop_checking: whenever checking is
\* True a thread is running check_schedule_availability.
LiveWorkerWhileChecking == checking => \E w \in Threads : Live(w)

\* C13: the wait between cycles tests the stop flag in every slice: a thread
\* that was in the wait when stop_checking was called (not in a sweep) leaves
\* the wait within a slice, that is before the clock's next second.
WaitEndsOnStop ==
  [][\A w \in Threads :
       (workers[w].pc = "wait" /\ ~workers[w].stop_seen /\ ~checking) => now' = now
    ]_vars

\* C14: once stop_checking has been called in the middle of a thread's sweep,
\* and as long as checking is False, that thread begins no further probe.
NoProbeAfterStop ==
  [][\A w \in Threads :
       (workers[w].stop_seen /\ ~checking) =>
          ~(workers[w].pc # "probe" /\ workers'[w].pc = "probe")
    ]_vars

\* ------------------------------------------------------------ runs without end
\* A run that goes on for ever, with the interval 0 start_checking accepts (the
\* wait of lines 443-446 then ends at once, whatever the clock shows) and pages
\* on which the class is not available.  status_text is kept as a window on
\* its last lines: a line that has scrolled out of it (line 434) is dropped.
LivePages == {[NoPage EXCEPT !.exc = "WebDriverException"]}

Scroll ==
  /\ sink # <<>>
  /\ sink' = Tail(sink)
  /\ UNCHANGED <<classes, tree, dialogs, check_interval, checking, buttons, signal, workers,
                 nthreads, now, queue, notif, delivered>>

NextLive ==
  \/ \E p \in PrefixInputs, n \in NumberInputs, s \in SectionInputs : add_class(p, n, s)
  \/ \E i \in 1..Len(tree) : remove_class(i)
  \/ start_checking(<<"0">>)
  \/ stop_checking
  \/ Dismiss
  \/ \E w \in Threads : WhileTest(w)
  \/ \E w \in Threads : ForNext(w)
  \/ \E w \in Threads, page \in LivePages : ProbeEnd(w, page)
  \/ \E w \in Threads : WaitTest(w)
  \/ Tick
  \/ Scroll

\* Every thread that can take a step again and again takes it (the scheduler
\* is fair and a probe returns); an open messagebox is closed.
ThreadStep(w) ==
  \/ WhileTest(w)
  \/ ForNext(w)
  \/ \E page \in LivePages : ProbeEnd(w, page)
  \/ WaitTest(w)

LiveFairness ==
  /\ \A w \in Threads : SF_vars(ThreadStep(w))
  /\ WF_vars(Dismiss)
  /\ WF_vars(Scroll)

SpecLive == Init /\ [][NextLive]_vars /\ LiveFairness

\* C15: a thread that was in its sweep when stop_checking was called
\* eventually terminates, whatever start_checking and stop_checking calls follow.
StoppedThreadsEnd ==
  \A w \in Threads : [](workers[w].stop_seen => <>(~Live(w)))

\* C16: while a thread is in its sweep (its for loop is iterating over
\* self.classes and will read self.check_interval at the sweep's end), no
\* handler changes the list of classes or the interval.
ListFixedDuringRun ==
  [][(\E w \in Threads : InCycle(w)) => UNCHANGED <<classes, check_interval>>]_vars

\* ------------------------------------------------------------ two classes, one run
\* The program after add_class for SE 1010 001 and CSE 1010 001 and
\* start_checking with the interval 2: the thread is at line 426.  The pages
\* show both sections, selected, or raise an exception.
NotifItems ==
  << <<<<"S", "E">>, <<"1", "0", "1", "0">>, <<"0", "0", "1">>>>,
     <<<<"C", "S", "E">>, <<"1", "0", "1", "0">>, <<"0", "0", "1">>>> >>

NotifPages ==
  { [NoPage EXCEPT !.exc = "WebDriverException"],
    [NoPage EXCEPT !.boxes = {Box(<<"S", "E">>, TRUE), Box(<<"C", "S", "E">>, TRUE)}] }

InitNotif ==
  /\ classes = [i \in 1..2 |->
                  ClassInfo(NotifItems[i][1], NotifItems[i][2], NotifItems[i][3])]
  /\ tree = NotifItems
  /\ check_interval = 2
  /\ checking = TRUE
  /\ buttons = "disabled"
  /\ signal = "none"
  /\ workers = [w \in Threads |->
                  IF w = 1 THEN [NewWorker EXCEPT !.pc = "while"] ELSE NewWorker]
  /\ nthreads = 1
  /\ now = 0
  /\ sink = <<>>
  /\ queue = <<>>
  /\ notif = [pc |-> "get", message |-> <<>>]
  /\ delivered = <<>>
  /\ dialogs = <<>>

NextNotif ==
  \/ stop_checking
  \/ \E w \in Threads : WhileTest(w)
  \/ \E w \in Threads : ForNext(w)
  \/ \E w \in Threads, page \in NotifPages : ProbeEnd(w, page)
  \/ \E w \in Threads : Alert(w)
  \/ \E w \in Threads : WaitTest(w)
  \/ NotifGet
  \/ NotifNotify
  \/ NotifDone
  \/ Tick

\* the notification_worker thread is scheduled again and again, and
\* notification.notify and time.sleep return
NotifFairness == WF_vars(NotifGet) /\ WF_vars(NotifNotify) /\ WF_vars(NotifDone)

SpecNotif == InitNotif /\ [][NextNotif]_vars /\ NotifFairness

\* the messages handed to the notifier and not lost: those shown, the one the
\* notification_worker holds, those in the queue
Pipeline ==
  delivered \o (IF notif.pc = "notify" THEN <<notif.message>> ELSE <<>>) \o queue

\* C17: messages are delivered by the one notification_worker in the order
\* they were enqueued, each at most once, none that was not enqueued, and every
\* enqueued message is eventually delivered.
NotifierFifo ==
  /\ [][/\ \/ Pipeline' = Pipeline
           \/ \E w \in Threads :
                /\ workers[w].pc = "alert"
                /\ Pipeline' = Append(Pipeline, workers[w].msg)
                /\ delivered' = delivered
        /\ \/ delivered' = delivered
           \/ /\ notif.pc = "notify"
              /\ delivered' = Append(delivered, notif.message)
       ]_vars
  /\ \A n \in 1..MaxLines : [](Len(Pipeline) >= n => <>(Len(delivered) >= n))

\* C17 witness: the messages of two different classes were enqueued and both
\* have been delivered, in the order of their probes
TwoDeliveredInOrder ==
  /\ Len(delivered) = 2
  /\ Len(sink) = 2
  /\ delivered[1] = sink[1].text
  /\ delivered[2] = sink[2].text
  /\ delivered[1] # delivered[2]
  /\ queue = <<>>

\* C18: handing a message to the notifier never blocks the poll loop: a thread
\* at the call of pop_up_alert can always take it, whatever the
\* notification_worker is doing and however many messages are in the queue.
AlertNeverBlocks ==
  \A w \in Threads : workers[w].pc = "alert" => ENABLED Alert(w)

\* C18 witness: the notification_worker has not taken a single message, and
\* the thread has handed over two and finished its sweep
AlertsPastStalledNotifier ==
  /\ Len(queue) = 2
  /\ delivered = <<>>
  /\ dialogs = <<>>
  /\ notif.pc = "get"
  /\ workers[1].pc = "wait"

\* C19: the notification queue is bounded by a fixed capacity: the number of
\* messages waiting in it stays below the number of probes a run makes (here
\* the MaxLines probes the model allows), however many of them find the class
\* available.
QueueBelowCapacity == Len(queue) < MaxLines

\* ------------------------------------------------------------ two threads, lines 432 and 433 apart
\* The program after add_class, start_checking, stop_checking and
\* start_checking again, the first thread not yet back at line 426: two threads
\* run check_schedule_availability.  Here the timestamp (line 432) and the
\* insert (line 433) are separate steps, and the clock's second may change
\* between any two steps.
InitStamp ==
  /\ classes = <<ClassInfo(<<"S", "E">>, <<"1", "0", "1", "0">>, <<"0", "0", "1">>)>>
  /\ tree = <<<<<<"S", "E">>, <<"1", "0", "1", "0">>, <<"0", "0", "1">>>>>>
  /\ check_interval = 2
  /\ checking = TRUE
  /\ buttons = "disabled"
  /\ signal = "none"
  /\ workers = [w \in Threads |->
                  IF w <= 2 THEN [NewWorker EXCEPT !.pc = "while"] ELSE NewWorker]
  /\ nthreads = 2
  /\ now = 0
  /\ sink = <<>>
  /\ queue = <<>>
  /\ notif = [pc |-> "get", message |-> <<>>]
  /\ delivered = <<>>
  /\ dialogs = <<>>

\* lines 431-432: check_class_availability returns and the timestamp is taken
Stamp(w, page) ==
  /\ signal = "none"
  /\ workers[w].pc = "probe"
  /\ LET r == check_class_availability(workers[w].item[1], workers[w].item[2],
                                       workers[w].item[3], page)
     IN Set(w, [workers[w] EXCEPT !.pc = "stamped", !.avail = r.avail,
                                  !.msg = r.msg, !.page = page, !.timestamp = now])
  /\ UNCHANGED <<workerFrame, sink, queue, notif, delivered>>

\* line 433: self.status_text.insert(tk.END, f"{timestamp}: {status_message}\n")
Insert(w) ==
  /\ signal = "none"
  /\ workers[w].pc = "stamped"
  /\ sink' = Append(sink, StatusLine(workers[w].timestamp, workers[w].msg))
  /\ Set(w, [workers[w] EXCEPT
               !.pc = IF workers[w].avail THEN "alert" ELSE "for",
               !.msg = IF workers[w].avail THEN @ ELSE <<>>,
               !.timestamp = 0,
               !.logged = Append(@, IdText(workers[w].item[1], workers[w].item[2],
                                           workers[w].item[3]))])
  /\ UNCHANGED <<workerFrame, queue, notif, delivered>>

\* the clock reaches its next second
TickAny ==
  /\ now < MaxTime
  /\ now' = now + 1
  /\ UNCHANGED <<uiVars, workers, nthreads, sink, queue, notif, delivered>>

NextStamp ==
  \/ \E w \in Threads : WhileTest(w)
  \/ \E w \in Threads : ForNext(w)
  \/ \E w \in Threads, page \in LivePages : Stamp(w, page)
  \/ \E w \in Threads : Insert(w)
  \/ \E w \in Threads : WaitTest(w)
  \/ TickAny

SpecStamp == InitStamp /\ [][NextStamp]_vars

\* C20: the status lines are in chronological order: the timestamps do not
\* decrease from one line of the sink to the next.
SinkChronological ==
  \A i \in 1..(Len(sink) - 1) : sink[i].ts <= sink[i + 1].ts

\* ------------------------------------------------------------ the Edit Class windows
MaxDialogs == 2

\* what is typed in a prefix field while Edit Class windows are in use
EditPrefixInputs == {<<"s", "e">>, <<"c", "e">>, <<SP>>}

\* edit_class, with row i of the tree selected: a window is opened on the row's
\* item and values; the window is not modal
edit_class(i) ==
  /\ signal = "none"
  /\ buttons = "normal"
  /\ i \in 1..Len(tree)
  /\ Len(dialogs) < MaxDialogs
  /\ dialogs' = Append(dialogs, [item |-> i, values |-> tree[i]])
  /\ UNCHANGED <<classes, tree, check_interval, checking, buttons, signal,
                 workers, nthreads, now, sink, queue, notif, delivered>>

\* save_changes of window k, with the texts of its three entry fields.
\* self.classes.index raises ValueError when the window's old class_info is no
\* longer in the list (line 372), class_tree.item raises TclError when the
\* window's item has been deleted (line 374): the callback ends there and the
\* window stays open.
save_changes(k, prefix_entry, number_entry, section_entry) ==
  /\ signal = "none"
  /\ k \in 1..Len(dialogs)
  /\ LET values == dialogs[k].values
         item == dialogs[k].item
         new_prefix == Upper(Strip(prefix_entry))
         new_number == Strip(number_entry)
         new_section == Strip(section_entry)
         index == IndexOf(classes, ClassInfo(values[1], values[2], values[3]))
     IN IF new_prefix # <<>> /\ new_number # <<>> /\ new_section # <<>>
        THEN /\ signal' = "none"
             /\ IF index = 0
                THEN UNCHANGED <<classes, tree, dialogs>>
                ELSE /\ classes' = [classes EXCEPT
                                      ![index] = ClassInfo(new_prefix, new_number, new_section)]
                     /\ IF item = 0
                        THEN UNCHANGED <<tree, dialogs>>
                        ELSE /\ tree' = [tree EXCEPT
                                           ![item] = <<new_prefix, new_number, new_section>>]
                             /\ dialogs' = RemoveAt(dialogs, k)
        ELSE /\ signal' = "Please fill in all fields."
             /\ UNCHANGED <<classes, tree, dialogs>>
  /\ UNCHANGED <<check_interval, checking, buttons, workers, nthreads, now,
                 sink, queue, notif, delivered>>

NextEdit ==
  \/ \E p \in EditPrefixInputs, n \in NumberInputs, s \in SectionInputs : add_class(p, n, s)
  \/ \E i \in 1..Len(tree) : remove_class(i)
  \/ \E i \in 1..Len(tree) : edit_class(i)
  \/ \E k \in 1..Len(dialogs), p \in EditPrefixInputs, n \in NumberInputs,
        s \in SectionInputs : save_changes(k, p, n, s)
  \/ Dismiss

SpecEdit == Init /\ [][NextEdit]_vars

\* the rows of the tree, each as the class_info it displays
TreeRows == [i \in 1..Len(tree) |-> ClassInfo(tree[i][1], tree[i][2], tree[i][3])]

NoDuplicates(list) ==
  \A i \in 1..Len(list) : \A j \in 1..Len(list) : i # j => list[i] # list[j]

\* C21: no identifier (equal prefix, code and section) occurs twice in
\* self.classes, whatever add_class, edit/save and remove_class operations
\* came before.
NoIdentifierTwice == NoDuplicates(classes)

\* C22: the rows of the class list view and the identifiers in self.classes
\* are the same identifiers in the same order, whatever add_class, edit (with
\* several Edit Class windows open, and saves from a window opened before a
\* later edit or remove) and remove_class operations came before.  Stated for
\* the steps between lists without a duplicate: such a step, taken where the
\* view shows the list, leaves the view showing the list.
ViewShowsClasses ==
  [][(NoDuplicates(classes) /\ TreeRows = classes /\ NoDuplicates(classes'))
       => TreeRows' = classes']_vars

====
